---- MODULE Spec2Model ----
(***************************************************************************)
(* State-machine model of one connect4 client (luvnft/connect4):           *)
(*   - the Bevy frame loop of gui_plugin.rs (place, move_coin, check_win,  *)
(*     has_winning_move) and of nostr_plugin.rs (handle_net_msg);          *)
(*   - the background network task of nostr_plugin.rs::setup (backlog      *)
(*     fetch, matchmaking decision, backlog forward, live notifications,   *)
(*     publish loop);                                                      *)
(*   - the two futures::channel::mpsc channels between them.               *)
(* resources.rs, components.rs and messages.rs are not part of the source  *)
(* tree; Board::new, GameState::new, CoinMove::new and                     *)
(* PlayerMove::is_winner are modelled from the specification text.         *)
(* gui_plugin.rs reads the local player and its sender from SendNetMsg     *)
(* (local_player, send: a sender of String); nostr_plugin.rs keeps the     *)
(* role and the sender of the publish loop in GameState (player_type,      *)
(* send: a sender of ClientMessage).  place is modelled on SendNetMsg, as  *)
(* written.  The code that inserts SendNetMsg, sets local_player and       *)
(* reads what place sends is not in the source tree; it is modelled from   *)
(* the specification (sections 3, 4.2, 4.4): the local player is the role  *)
(* matchmaking assigned (SetLocalPlayer) and what place sends is handed    *)
(* to the outbound queue the publish loop reads (SendToOutbound).          *)
(***************************************************************************)
EXTENDS Naturals, Integers, Sequences, FiniteSets, TLC

\* ------------------------------------------------------------ constants
COLUMNS == 7
ROWS == 7
\* the hidden top row of slots (row == 6); coins are spawned at its height
TOP_ROW == 6
\* `row_pos <= 5`: the highest row a move may take
MAX_ROW_POS == 5
\* player_type written when a JoinGame names neither key as the local one
NOT_YOUR_GAME == 3

\* ------------------------------------------------------------ bounds
\* columns 0..MaxCol are offered to the pointer and to the remote peer
MaxCol == 0
\* the live subscription stops delivering when the inbound queue holds this many
MaxInbound == 2
\* the buffer argument of channel::<_>(1000), scaled down
ChannelBuffer == 0
\* a coin falls the TOP_ROW rows in at most this many frames
MaxFallFrames == 1
\* longest backlog the relay returns
MaxBacklog == 2
\* handle_net_msg's pop counter saturates here
HandledCap == 2
\* the peer sends at most this many moves in a column off the board
MaxOffBoard == 1
\* with one client on its own, what place sent is handed to the outbound
\* queue only while that queue holds fewer messages than this
MaxOutbound == 1
\* in the two-client game a press is made only while both boards hold fewer
\* moves than this
MaxGameMoves == 2
\* the win-detector harness drops at most MaxWinMoves coins into columns
\* 0..MaxWinCol, up to row MaxWinRow
MaxWinCol == 3
MaxWinRow == 3
MaxWinMoves == 10

VARIABLES
    board,      \* Res<Board>: [moves, player_turn, winner (0 = None), in_progress]
    coins,      \* the CoinMove entities not yet settled, in spawn order: [player_move, y, reached_target]
    cmds,       \* Commands deferred to the end of the frame: [spawn, despawn]
    pc,         \* next gui system of this frame: "place", "move_coin", "done"
    net_ran,    \* handle_net_msg has run in this frame
    inbound,    \* send_tx / network_stuff.read  (network task -> frame loop)
    outbound,   \* nostr_msg_tx / game_state.send: the queue the publish loop reads
    sending,    \* the message the publish loop popped and send_msg has not yet returned for
    send_net_msg, \* Res<SendNetMsg>: [local_player, send (the channel place sends on)]
    game_state, \* Res<GameState>: [player_type, start, p2_ln_address, local_ln_address]
    npc,        \* position of the network task: "fetch", "tip", "forward",
                \* "subscribe_p1", "subscribe_p2" (the awaits of the drain loop), "live",
                \* "subscribe_live" (the await of the notification closure)
    event,      \* the `event` held across a subscribe await (at most one)
    notified,   \* number of relay events the live subscription has handed to the closure
    backlog,    \* the events get_events_of returned, after events.reverse()
    events,     \* what is left of `events` in the drain loop
    setup_sent, \* every message the network task has enqueued outbound
    handled,    \* number of inbound messages handle_net_msg has popped (saturating)
    err_logged, \* the last step logged an error (error!)
    peer,       \* a second client running the same program, in its own naming:
                \* [game_state, board, npc, backlog, events, inbound, outbound, sent,
                \*  handled, coins, cmds, pc, net_ran, sending, send_net_msg, event,
                \*  notified]
    relay       \* the events published under the game tag, oldest first

vars == <<board, coins, cmds, pc, net_ran, inbound, outbound, sending, send_net_msg,
          game_state, npc, event, notified, backlog, events, setup_sent, handled,
          err_logged, peer, relay>>

\* ------------------------------------------------------------ messages
ME == "me"
PEER == "x"
OTHER_ID == "z"
NO_NAME == "none"

Input(c) == [type |-> "Input", column |-> c]
Replay == [type |-> "Replay"]
NewGame(name) == [type |-> "NewGame", name |-> name]
JoinGame(p1n, p2n, p1, p2) ==
    [type |-> "JoinGame", p1_name |-> p1n, p2_name |-> p2n, p1_pubkey |-> p1, p2_pubkey |-> p2]
\* a payload that is no NetworkMessage; words = the variant names its text holds
Text(words) == [type |-> "Garbage", words |-> words]

\* a payload that is no NetworkMessage and holds no variant name
Garbage == Text({})

Event(pk, content) == [pubkey |-> pk, content |-> content]

\* the serialized text of a NetworkMessage: the variant name is in it, and so
\* is every display name it carries (a name holds the word when it is the
\* word); keys are hex and columns are digits
Words(content) ==
    CASE content.type = "Garbage" -> content.words
      [] content.type = "NewGame" -> {"NewGame", content.name}
      [] content.type = "JoinGame" -> {"JoinGame", content.p1_name, content.p2_name}
      [] OTHER -> {content.type}

\* event.content.contains("NewGame") / contains("JoinGame") on the serialized text
Contains(content, tag) == tag \in Words(content)

\* serde_json::from_str::<NetworkMessage> returns Ok.  The match of
\* handle_net_msg lists Input, JoinGame and NewGame as the variants of the
\* enum; a Replay payload, or a malformed one, has no arm but Err.
Decodes(content) == content.type \in {"Input", "JoinGame", "NewGame"}

Reverse(s) == [i \in 1..Len(s) |-> s[Len(s) + 1 - i]]

\* ------------------------------------------------------------ channels
\* futures::channel::mpsc::channel(buffer): q is the message queue, parked
\* the queue of parked sender tasks ("own" = the sender kept in the resource,
\* "clone" = a sender cloned for one try_send and dropped).
ChannelNew == [q |-> <<>>, parked |-> <<>>]

OwnParked(ch) == \E i \in DOMAIN ch.parked : ch.parked[i] = "own"

\* Sender::try_send: a parked sender is refused (Full); any other sender's
\* message is queued, and the sender parks when the queue then exceeds buffer.
\* A fresh clone is never parked.
TrySend(ch, who, m) ==
    IF who = "own" /\ OwnParked(ch)
    THEN [ch |-> ch, ok |-> FALSE]
    ELSE [ch |-> [q |-> Append(ch.q, m),
                  parked |-> IF Len(ch.q) + 1 > ChannelBuffer
                             THEN Append(ch.parked, who) ELSE ch.parked],
          ok |-> TRUE]

\* Receiver::try_next on a non-empty queue: pop one message, unpark one sender
TryNext(ch) ==
    [q |-> Tail(ch.q), parked |-> IF ch.parked = <<>> THEN <<>> ELSE Tail(ch.parked)]

\* ------------------------------------------------------------ board
\* a PlayerMove that forgets the row it was given
PlayerMove_bottom_row(p, c, r) == [player |-> p, column |-> c, row |-> 0]

PlayerMove(p, c, r) == [player |-> p, column |-> c, row |-> r]

Board_new == [moves |-> <<>>, player_turn |-> 1, winner |-> 0, in_progress |-> FALSE]

GameState_new ==
    [player_type |-> 0, start |-> FALSE, p2_ln_address |-> NO_NAME,
     local_ln_address |-> NO_NAME]

\* the SendNetMsg resource (resources.rs): local_player is the role of the
\* session (spec 3, SessionState.role) and send the sender place keeps for
\* its outbound messages (spec 3, SessionState.outbound_handle)
SendNetMsg_new(local_player) == [local_player |-> local_player, send |-> ChannelNew]

CoinMove_new(pm) == [player_move |-> pm, y |-> TOP_ROW, reached_target |-> FALSE]

\* board.moves.iter().filter(|m| m.column == c).count()
row_pos(moves, c) == Cardinality({i \in DOMAIN moves : moves[i].column = c})

Flip(t) == IF t = 1 THEN 2 ELSE 1

\* ------------------------------------------------------------ win detector
\* the player whose move lies in cell (c, r); 0 when the cell is empty
Occupant(moves, c, r) ==
    LET at == {i \in DOMAIN moves : moves[i].column = c /\ moves[i].row = r}
    IN IF at = {} THEN 0 ELSE moves[CHOOSE i \in at : TRUE].player

RECURSIVE CountDir(_, _, _, _, _, _)
\* contiguous cells of player p from (c, r) on, stepping by (dc, dr)
CountDir(moves, p, c, r, dc, dr) ==
    IF c < 0 \/ r < 0 \/ Occupant(moves, c, r) # p
    THEN 0
    ELSE 1 + CountDir(moves, p, c + dc, r + dr, dc, dr)

AXES == {<<1, 0>>, <<0, 1>>, <<1, 1>>, <<1, -1>>}

\* PlayerMove::is_winner: some axis through the move holds >= 4 contiguous
\* cells of its player, the move itself included, both directions counted
is_winner(m, moves) ==
    \E a \in AXES :
        1 + CountDir(moves, m.player, m.column + a[1], m.row + a[2], a[1], a[2])
          + CountDir(moves, m.player, m.column - a[1], m.row - a[2], -a[1], -a[2]) >= 4

\* the detector looking at the last-placed move only
has_winning_move_last(moves) ==
    moves # <<>> /\ is_winner(moves[Len(moves)], moves)

\* has_winning_move: moves.iter().any(|move_| move_.is_winner(moves))
has_winning_move(moves) ==
    \E i \in DOMAIN moves : is_winner(moves[i], moves)

\* check_win without the test of the detector
check_win_unconditional(b) == [b EXCEPT !.winner = b.player_turn]

check_win(b) ==
    IF has_winning_move(b.moves) THEN [b EXCEPT !.winner = b.player_turn] ELSE b


\* ------------------------------------------------------------ gui_plugin.rs
\* a CoinSlot exists for every column 0..COLUMNS-1 and row 0..ROWS-1
SlotExists(c, r) == c \in 0..(COLUMNS - 1) /\ r \in 0..(ROWS - 1)

\* the body of move_coin's loops for one coin: fall by delta, or settle
MoveOneCoin(coin, b, delta) ==
    IF ~SlotExists(coin.player_move.column, coin.player_move.row)
    THEN [coin |-> coin, board |-> b]
    ELSE IF coin.y > coin.player_move.row
    THEN [coin |-> [coin EXCEPT !.y = coin.y - delta],
          board |-> [b EXCEPT !.in_progress = TRUE]]
    ELSE IF ~coin.reached_target
    THEN LET w == check_win(b)
         IN [coin |-> [coin EXCEPT !.y = coin.player_move.row, !.reached_target = TRUE],
             board |-> [w EXCEPT !.in_progress = FALSE,
                                 !.player_turn = Flip(w.player_turn)]]
    ELSE [coin |-> coin, board |-> b]

RECURSIVE MoveCoins(_, _, _, _)
\* move_coin's outer loop, coin i onwards
MoveCoins(cs, i, b, delta) ==
    IF i > Len(cs)
    THEN [coins |-> cs, board |-> b]
    ELSE LET r == MoveOneCoin(cs[i], b, delta)
         IN MoveCoins([cs EXCEPT ![i] = r.coin], i + 1, r.board, delta)

\* place's gate without the `if board.in_progress { continue; }` test
place_allowed_while_falling(b, local_player, c) ==
    /\ b.winner = 0
    /\ b.player_turn = local_player
    /\ row_pos(b.moves, c) <= MAX_ROW_POS

\* place's gate for a press on a slot of column c
place_allowed(b, local_player, c) ==
    /\ b.winner = 0
    /\ ~b.in_progress
    /\ b.player_turn = local_player
    /\ row_pos(b.moves, c) <= MAX_ROW_POS

\* place, no button or touch just pressed in this frame
PlaceIdle ==
    /\ UNCHANGED <<peer, relay, sending, send_net_msg, event, notified>>
    /\ pc = "place"
    /\ pc' = "move_coin"
    /\ err_logged' = FALSE
    /\ UNCHANGED <<board, coins, cmds, net_ran, inbound, outbound, game_state,
                   npc, backlog, events, setup_sent, handled>>

\* place, a press while the pointer hovers a slot of column c
PlaceClick(c) ==
    /\ UNCHANGED <<peer, relay, sending, event, notified>>
    /\ pc = "place"
    /\ pc' = "move_coin"
    /\ IF place_allowed(board, send_net_msg.local_player, c)
       THEN LET pm == PlayerMove(board.player_turn, c, row_pos(board.moves, c))
                s == TrySend(send_net_msg.send, "own", Input(c))
            IN /\ board' = [board EXCEPT !.moves = Append(@, pm)]
               /\ send_net_msg' = [send_net_msg EXCEPT !.send = s.ch]
               /\ err_logged' = ~s.ok
               /\ cmds' = [cmds EXCEPT !.spawn = Append(@, CoinMove_new(pm))]
       ELSE /\ err_logged' = FALSE
            /\ UNCHANGED <<board, send_net_msg, cmds>>
    /\ UNCHANGED <<coins, net_ran, inbound, outbound, game_state, npc, backlog,
                   events, setup_sent, handled>>

\* the replay block's gate: `if board.winner.is_some()`
replay_allowed(b) == b.winner # 0

\* place, a press while the pointer is on the replay button
PlaceReplay ==
    /\ UNCHANGED <<peer, relay, sending, event, notified>>
    /\ pc = "place"
    /\ pc' = "move_coin"
    /\ IF replay_allowed(board)
       THEN LET s == TrySend(send_net_msg.send, "own", Replay)
            IN /\ board' = Board_new
               /\ cmds' = [cmds EXCEPT !.despawn = TRUE]
               /\ send_net_msg' = [send_net_msg EXCEPT !.send = s.ch]
               /\ err_logged' = ~s.ok
       ELSE /\ err_logged' = FALSE
            /\ UNCHANGED <<board, send_net_msg, cmds>>
    /\ UNCHANGED <<coins, net_ran, inbound, outbound, game_state, npc, backlog,
                   events, setup_sent, handled>>

\* place, a press that is on the replay button and on a slot of column c at
\* once (two touches, or the cursor where the 20-unit discs of the button and
\* of a slot overlap): the replay block runs first, the column loop after it
\* on the board the replay block left
PlaceReplayClick(c) ==
    /\ UNCHANGED <<peer, relay, sending, event, notified>>
    /\ pc = "place"
    /\ pc' = "move_coin"
    /\ LET won == replay_allowed(board)
           s1 == IF won THEN TrySend(send_net_msg.send, "own", Replay)
                        ELSE [ch |-> send_net_msg.send, ok |-> TRUE]
           b1 == IF won THEN Board_new ELSE board
           allowed == place_allowed(b1, send_net_msg.local_player, c)
           pm == PlayerMove(b1.player_turn, c, row_pos(b1.moves, c))
           s2 == IF allowed THEN TrySend(s1.ch, "own", Input(c))
                            ELSE [ch |-> s1.ch, ok |-> TRUE]
       IN /\ board' = IF allowed THEN [b1 EXCEPT !.moves = Append(@, pm)] ELSE b1
          /\ send_net_msg' = [send_net_msg EXCEPT !.send = s2.ch]
          /\ err_logged' = (~s1.ok \/ ~s2.ok)
          /\ cmds' = [spawn |-> IF allowed THEN Append(cmds.spawn, CoinMove_new(pm))
                                           ELSE cmds.spawn,
                      despawn |-> (cmds.despawn \/ won)]
    /\ UNCHANGED <<coins, net_ran, inbound, outbound, game_state, npc, backlog,
                   events, setup_sent, handled>>

\* a coin move_coin still acts on
Unsettled(coin) == ~coin.reached_target

\* move_coin, with 250.0 * time.delta_seconds() = delta rows.  A coin whose
\* reached_target is set is never touched again (both branches of the loop
\* body are closed to it), so `coins` keeps the unsettled coins only.
MoveCoin(delta) ==
    /\ UNCHANGED <<peer, relay, sending, send_net_msg, event, notified>>
    /\ pc = "move_coin"
    /\ pc' = "done"
    /\ LET r == MoveCoins(coins, 1, board, delta)
       IN /\ coins' = SelectSeq(r.coins, Unsettled)
          /\ board' = r.board
    /\ err_logged' = FALSE
    /\ UNCHANGED <<cmds, net_ran, inbound, outbound, game_state, npc, backlog,
                   events, setup_sent, handled>>

\* end of the Update schedule: the deferred Commands are applied
EndFrame ==
    /\ UNCHANGED <<peer, relay, sending, send_net_msg, event, notified>>
    /\ pc = "done"
    /\ net_ran
    /\ pc' = "place"
    /\ net_ran' = FALSE
    /\ coins' = (IF cmds.despawn THEN <<>> ELSE coins) \o cmds.spawn
    /\ cmds' = [spawn |-> <<>>, despawn |-> FALSE]
    /\ err_logged' = FALSE
    /\ UNCHANGED <<board, inbound, outbound, game_state, npc, backlog, events,
                   setup_sent, handled>>

\* ------------------------------------------------------------ nostr_plugin.rs
Min(a, b) == IF a < b THEN a ELSE b

\* NetworkMessage::Input arm without the row_pos test
input_accepted_nocap(b, c) == TRUE

\* NetworkMessage::Input arm: `if row_pos <= 5`
input_accepted(b, c) == row_pos(b.moves, c) <= MAX_ROW_POS

\* NetworkMessage::Input arm, accepted: push the move, flip player_turn
input_applied(b, c) ==
    [b EXCEPT !.moves = Append(@, PlayerMove(b.player_turn, c, row_pos(b.moves, c))),
              !.player_turn = Flip(b.player_turn)]

\* NetworkMessage::JoinGame arm
handle_JoinGame(gs, players) ==
    IF ME # players.p1_pubkey /\ ME # players.p2_pubkey
    THEN [gs EXCEPT !.player_type = NOT_YOUR_GAME]
    ELSE IF gs.start
    THEN gs
    ELSE [gs EXCEPT !.p2_ln_address = players.p2_name, !.player_type = 1, !.start = TRUE]

\* the NewGame arm taking the local client for the announcer
handle_NewGame_as_p1(gs, player1) ==
    IF gs.start
    THEN gs
    ELSE [gs EXCEPT !.p2_ln_address = player1, !.player_type = 1, !.start = TRUE]

\* NetworkMessage::NewGame arm
handle_NewGame(gs, player1) ==
    IF gs.start
    THEN gs
    ELSE [gs EXCEPT !.p2_ln_address = player1, !.player_type = 2, !.start = TRUE]

RECURSIVE Drain(_)

\* an Err arm that clears the board
deserialize_failed_resets(S) == [S EXCEPT !.board = Board_new]

\* the Err(e) arm: info!("Failed to deserialize message: ..") and nothing else
deserialize_failed(S) == S

\* the Input arm going on with the loop after an accepted move
input_done_continues(S) == Drain(S)

\* the `break;` that ends the accepted branch of the Input arm
input_done_break(S) == S

\* handle_net_msg's `while let Ok(Some(message)) = receive_rx.try_next()`;
\* S = [inbound, board, gs, spawn, handled].  The match has arms for Input,
\* JoinGame and NewGame only; any other payload ends in the Err arm.
Drain(S) ==
    IF S.inbound.q = <<>>
    THEN S
    ELSE LET m == Head(S.inbound.q)
             S1 == [S EXCEPT !.inbound = TryNext(S.inbound),
                             !.handled = Min(S.handled + 1, HandledCap)]
         IN IF ~Decodes(m)
            THEN Drain(deserialize_failed(S1))
            ELSE CASE m.type = "Input" ->
                        IF input_accepted(S1.board, m.column)
                        THEN input_done_break([S1 EXCEPT
                                !.board = input_applied(S1.board, m.column),
                                !.spawn = Append(@, CoinMove_new(
                                    PlayerMove(S1.board.player_turn, m.column,
                                               row_pos(S1.board.moves, m.column))))])
                        ELSE Drain(S1)
                   [] m.type = "JoinGame" ->
                        Drain([S1 EXCEPT !.gs = handle_JoinGame(S1.gs, m)])
                   [] m.type = "NewGame" ->
                        Drain([S1 EXCEPT !.gs = handle_NewGame(S1.gs, m.name)])

\* handle_net_msg, one run
HandleNetMsg ==
    /\ UNCHANGED <<peer, relay, sending, send_net_msg, event, notified>>
    /\ ~net_ran
    /\ net_ran' = TRUE
    /\ LET r == Drain([inbound |-> inbound, board |-> board, gs |-> game_state,
                       spawn |-> cmds.spawn, handled |-> handled])
       IN /\ inbound' = r.inbound
          /\ board' = r.board
          /\ game_state' = r.gs
          /\ cmds' = [cmds EXCEPT !.spawn = r.spawn]
          /\ handled' = r.handled
    /\ err_logged' = FALSE
    /\ UNCHANGED <<coins, pc, outbound, npc, backlog, events, setup_sent>>

\* the publish loop, `while let Some(msg) = nostr_msg_rx.next().await`: the
\* next message is popped and send_msg(msg) is awaited
PublishLoop ==
    /\ UNCHANGED <<peer, relay, send_net_msg, event, notified>>
    /\ sending = <<>>
    /\ outbound.q # <<>>
    /\ outbound' = TryNext(outbound)
    /\ sending' = <<Head(outbound.q)>>
    /\ err_logged' = FALSE
    /\ UNCHANGED <<board, coins, cmds, pc, net_ran, inbound, game_state, npc,
                   backlog, events, setup_sent, handled>>

\* send_msg(msg).await returns Ok: the relay holds the event, signed by the
\* local identity
SendMsgOk ==
    /\ UNCHANGED <<peer, send_net_msg, event, notified>>
    /\ sending # <<>>
    /\ sending' = <<>>
    /\ relay' = Append(relay, Event(ME, sending[1]))
    /\ err_logged' = FALSE
    /\ UNCHANGED <<board, coins, cmds, pc, net_ran, inbound, outbound, game_state,
                   npc, backlog, events, setup_sent, handled>>

\* send_msg(msg).await returns Err: an alert and error!; the message is gone
SendMsgErr ==
    /\ UNCHANGED <<peer, relay, send_net_msg, event, notified>>
    /\ sending # <<>>
    /\ sending' = <<>>
    /\ err_logged' = TRUE
    /\ UNCHANGED <<board, coins, cmds, pc, net_ran, inbound, outbound, game_state,
                   npc, backlog, events, setup_sent, handled>>

\* The local player is the role matchmaking assigned (spec 3): the role
\* handle_net_msg wrote is taken over into SendNetMsg.local_player.  The
\* code doing so is not in the source tree.
SetLocalPlayer ==
    /\ UNCHANGED <<peer, relay, sending, event, notified>>
    /\ send_net_msg.local_player # game_state.player_type
    /\ send_net_msg' = [send_net_msg EXCEPT !.local_player = game_state.player_type]
    /\ err_logged' = FALSE
    /\ UNCHANGED <<board, coins, cmds, pc, net_ran, inbound, outbound, game_state,
                   npc, backlog, events, setup_sent, handled>>

\* What place sent is handed to the outbound queue the publish loop reads
\* (spec 4.2, 4.4): the oldest message is taken off SendNetMsg.send and
\* enqueued on nostr_msg_tx.  The code doing so is not in the source tree.
SendToOutbound ==
    /\ UNCHANGED <<peer, relay, sending, event, notified>>
    /\ send_net_msg.send.q # <<>>
    /\ send_net_msg' = [send_net_msg EXCEPT !.send = TryNext(@)]
    /\ LET s == TrySend(outbound, "clone", Head(send_net_msg.send.q))
       IN outbound' = s.ch /\ err_logged' = ~s.ok
    /\ UNCHANGED <<board, coins, cmds, pc, net_ran, inbound, game_state, npc,
                   backlog, events, setup_sent, handled>>

\* handle_notifications' closure for one live event of another identity,
\* up to its subscribe await (line 266) when the text holds "JoinGame", to
\* its end otherwise
Notify(e) ==
    /\ UNCHANGED <<peer, relay, sending, send_net_msg, notified>>
    /\ npc = "live"
    /\ e.pubkey # ME
    /\ Len(inbound.q) < MaxInbound
    /\ IF Contains(e.content, "JoinGame")
       THEN /\ npc' = "subscribe_live"
            /\ event' = <<e>>
            /\ err_logged' = FALSE
            /\ UNCHANGED inbound
       ELSE /\ LET s == TrySend(inbound, "clone", e.content)
               IN inbound' = s.ch /\ err_logged' = ~s.ok
            /\ UNCHANGED <<npc, event>>
    /\ UNCHANGED <<board, coins, cmds, pc, net_ran, outbound, game_state,
                   backlog, events, setup_sent, handled>>

\* client.subscribe(..).await of line 266 returns: try_send and the end of
\* the closure
SubscribedLive ==
    /\ UNCHANGED <<peer, relay, sending, send_net_msg, notified>>
    /\ npc = "subscribe_live"
    /\ npc' = "live"
    /\ event' = <<>>
    /\ LET s == TrySend(inbound, "clone", event[1].content)
       IN inbound' = s.ch /\ err_logged' = ~s.ok
    /\ UNCHANGED <<board, coins, cmds, pc, net_ran, outbound, game_state,
                   backlog, events, setup_sent, handled>>

\* handle_notifications' closure for the next event of the relay, each
\* event handed over once and in the relay's order; an event of the local
\* identity is passed by (`if event.pubkey != nostr_keys.public_key()`)
NotifyNext ==
    /\ UNCHANGED <<peer, relay, sending, send_net_msg>>
    /\ npc = "live"
    /\ notified < Len(relay)
    /\ Len(inbound.q) < MaxInbound
    /\ notified' = notified + 1
    /\ IF relay[notified + 1].pubkey = ME
       THEN /\ err_logged' = FALSE
            /\ UNCHANGED <<inbound, npc, event>>
       ELSE IF Contains(relay[notified + 1].content, "JoinGame")
       THEN /\ npc' = "subscribe_live"
            /\ event' = <<relay[notified + 1]>>
            /\ err_logged' = FALSE
            /\ UNCHANGED inbound
       ELSE /\ LET s == TrySend(inbound, "clone", relay[notified + 1].content)
               IN inbound' = s.ch /\ err_logged' = ~s.ok
            /\ UNCHANGED <<npc, event>>
    /\ UNCHANGED <<board, coins, cmds, pc, net_ran, outbound, game_state,
                   backlog, events, setup_sent, handled>>

\* the usernames local storage may hold; NO_NAME: the key is absent
StoredUsernames == {NO_NAME, "bob"}

\* `if let Ok(Some(username)) = local_storage.get_item("username")`
setup_username(gs, stored) ==
    IF stored # NO_NAME THEN [gs EXCEPT !.local_ln_address = stored] ELSE gs

\* get_events_of's result, newest first, put oldest first by events.reverse()
Fetch(relay_events) ==
    /\ UNCHANGED <<peer, relay, sending, send_net_msg, event, notified>>
    /\ npc = "fetch"
    /\ npc' = "tip"
    /\ backlog' = Reverse(relay_events)
    /\ events' = Reverse(relay_events)
    /\ err_logged' = FALSE
    /\ UNCHANGED <<board, coins, cmds, pc, net_ran, inbound, outbound, game_state,
                   setup_sent, handled>>

\* the matchmaking step announcing a join however the tip decodes
tip_message_always_join(evs, local_ln_address) ==
    IF evs = <<>>
    THEN <<JoinGame(NO_NAME, local_ln_address, PEER, ME)>>
    ELSE <<JoinGame(NO_NAME, local_ln_address, evs[Len(evs)].pubkey, ME)>>

\* the matchmaking step joining a NewGame tip whoever wrote it
tip_message_joins_own(evs, local_ln_address) ==
    IF evs = <<>>
    THEN <<NewGame(local_ln_address)>>
    ELSE LET last_event == evs[Len(evs)]
         IN IF last_event.content.type = "NewGame"
            THEN <<JoinGame(last_event.content.name, local_ln_address,
                            last_event.pubkey, ME)>>
            ELSE <<>>

\* `if let Some(last_event) = events.last()`: what setup publishes, with
\* game_state_clone_2.local_ln_address as the local display name
tip_message(evs, local_ln_address) ==
    IF evs = <<>>
    THEN <<NewGame(local_ln_address)>>
    ELSE LET last_event == evs[Len(evs)]
         IN IF last_event.content.type = "NewGame" /\ last_event.pubkey # ME
            THEN <<JoinGame(last_event.content.name, local_ln_address,
                            last_event.pubkey, ME)>>
            ELSE <<>>

\* the matchmaking step of setup: at most one try_send on a clone of nostr_msg_tx
Tip ==
    /\ UNCHANGED <<peer, relay, sending, send_net_msg, event, notified>>
    /\ npc = "tip"
    /\ npc' = "forward"
    /\ LET msgs == tip_message(events, game_state.local_ln_address)
       IN IF msgs = <<>>
          THEN /\ err_logged' = FALSE
               /\ UNCHANGED <<outbound, setup_sent>>
          ELSE LET s == TrySend(outbound, "clone", msgs[1])
               IN /\ outbound' = s.ch
                  /\ err_logged' = ~s.ok
                  /\ setup_sent' = IF s.ok THEN Append(setup_sent, msgs[1]) ELSE setup_sent
    /\ UNCHANGED <<board, coins, cmds, pc, net_ran, inbound, game_state, backlog,
                   events, handled>>

\* a drain loop skipping every entry the local identity wrote
forward_skipped_all_own(e) == e.pubkey = ME

\* the drain loop skips every entry of the local identity whose text holds
\* "NewGame" or "JoinGame", a NetworkMessage or not
forward_skipped(e) ==
    (Contains(e.content, "NewGame") \/ Contains(e.content, "JoinGame")) /\ e.pubkey = ME

\* where the drain loop goes with the entry e it has taken: back to the top
\* ("forward": skipped, or sent at once), or into the subscribe await of
\* line 223 or of line 235
forward_next(e) ==
    IF forward_skipped(e) THEN "forward"
    ELSE IF Contains(e.content, "NewGame") THEN "subscribe_p1"
    ELSE IF Contains(e.content, "JoinGame") THEN "subscribe_p2"
    ELSE "forward"

\* one iteration of `for event in events.drain(..)`, from the top of the
\* loop to its first await, or to its end when it has none
ForwardEvent ==
    /\ UNCHANGED <<peer, relay, sending, send_net_msg, notified>>
    /\ npc = "forward"
    /\ events # <<>>
    /\ events' = Tail(events)
    /\ npc' = forward_next(Head(events))
    /\ IF forward_skipped(Head(events))
       THEN /\ err_logged' = FALSE
            /\ UNCHANGED <<inbound, event>>
       ELSE IF forward_next(Head(events)) # "forward"
       THEN /\ event' = <<Head(events)>>
            /\ err_logged' = FALSE
            /\ UNCHANGED inbound
       ELSE LET s == TrySend(inbound, "clone", Head(events).content)
            IN inbound' = s.ch /\ err_logged' = ~s.ok /\ UNCHANGED event
    /\ UNCHANGED <<board, coins, cmds, pc, net_ran, outbound, game_state,
                   backlog, setup_sent, handled>>

\* client.subscribe(..).await of line 223 returns (the entry holds
\* "NewGame"): on to the subscribe of line 235 when it holds "JoinGame" too,
\* else to try_send and the end of the iteration
SubscribedP1 ==
    /\ UNCHANGED <<peer, relay, sending, send_net_msg, notified>>
    /\ npc = "subscribe_p1"
    /\ IF Contains(event[1].content, "JoinGame")
       THEN /\ npc' = "subscribe_p2"
            /\ err_logged' = FALSE
            /\ UNCHANGED <<inbound, event>>
       ELSE /\ npc' = "forward"
            /\ event' = <<>>
            /\ LET s == TrySend(inbound, "clone", event[1].content)
               IN inbound' = s.ch /\ err_logged' = ~s.ok
    /\ UNCHANGED <<board, coins, cmds, pc, net_ran, outbound, game_state,
                   backlog, events, setup_sent, handled>>

\* client.subscribe(..).await of line 235 returns (the entry holds
\* "JoinGame"): try_send and the end of the iteration
SubscribedP2 ==
    /\ UNCHANGED <<peer, relay, sending, send_net_msg, notified>>
    /\ npc = "subscribe_p2"
    /\ npc' = "forward"
    /\ event' = <<>>
    /\ LET s == TrySend(inbound, "clone", event[1].content)
       IN inbound' = s.ch /\ err_logged' = ~s.ok
    /\ UNCHANGED <<board, coins, cmds, pc, net_ran, outbound, game_state,
                   backlog, events, setup_sent, handled>>

\* the drain loop is over: client.handle_notifications(..) starts
StartLive ==
    /\ UNCHANGED <<peer, relay, sending, send_net_msg, event, notified>>
    /\ npc = "forward"
    /\ events = <<>>
    /\ npc' = "live"
    /\ err_logged' = FALSE
    /\ UNCHANGED <<board, coins, cmds, pc, net_ran, inbound, outbound, game_state,
                   backlog, events, setup_sent, handled>>

\* the second client before its network task has fetched anything
PeerNew(local_player, stored) ==
    [game_state |-> setup_username(GameState_new, stored), board |-> Board_new,
     npc |-> "fetch", backlog |-> <<>>, events |-> <<>>, inbound |-> ChannelNew,
     outbound |-> ChannelNew, sent |-> <<>>, handled |-> 0,
     coins |-> <<>>, cmds |-> [spawn |-> <<>>, despawn |-> FALSE],
     pc |-> "place", net_ran |-> FALSE, sending |-> <<>>,
     send_net_msg |-> SendNetMsg_new(local_player), event |-> <<>>, notified |-> 0]

\* ------------------------------------------------------------ the game, paired

\* the client after matchmaking, as Player1 (own NewGame answered by the
\* peer's JoinGame) or as Player2 (the peer's NewGame found in the backlog);
\* no username is stored; the local player is the role
InitBoard ==
    /\ board = Board_new
    /\ coins = <<>>
    /\ cmds = [spawn |-> <<>>, despawn |-> FALSE]
    /\ pc = "place"
    /\ net_ran = FALSE
    /\ inbound = ChannelNew
    /\ outbound = ChannelNew
    /\ sending = <<>>
    /\ npc = "live"
    /\ event = <<>>
    /\ events = <<>>
    /\ handled = 1
    /\ err_logged = FALSE
    /\ peer = PeerNew(0, NO_NAME)
    /\ \/ /\ game_state = [GameState_new EXCEPT !.player_type = 1, !.start = TRUE]
          /\ backlog = <<>>
          /\ setup_sent = <<NewGame(NO_NAME)>>
          /\ relay = <<Event(ME, NewGame(NO_NAME)),
                       Event(PEER, JoinGame(NO_NAME, NO_NAME, ME, PEER))>>
       \/ /\ game_state = [GameState_new EXCEPT !.player_type = 2, !.start = TRUE]
          /\ backlog = <<Event(PEER, NewGame(NO_NAME))>>
          /\ setup_sent = <<JoinGame(NO_NAME, NO_NAME, PEER, ME)>>
          /\ relay = <<Event(PEER, NewGame(NO_NAME)),
                       Event(ME, JoinGame(NO_NAME, NO_NAME, PEER, ME))>>
    /\ send_net_msg = SendNetMsg_new(game_state.player_type)
    /\ notified = Len(relay)

BoardEvents == {Event(PEER, Input(c)) : c \in 0..MaxCol} \cup {Event(PEER, Replay)}

\* what place sent is handed on while the outbound queue, which the publish
\* loop of this client is not seen to drain, holds fewer than MaxOutbound
BoardSendToOutbound == Len(outbound.q) < MaxOutbound /\ SendToOutbound

\* 250.0 * time.delta_seconds(), in rows per frame
DELTAS == {d \in 1..TOP_ROW : d * MaxFallFrames >= TOP_ROW}

NextBoard ==
    \/ PlaceIdle
    \/ \E c \in 0..MaxCol : PlaceClick(c)
    \/ PlaceReplay
    \/ \E c \in 0..MaxCol : PlaceReplayClick(c)
    \/ \E d \in DELTAS : MoveCoin(d)
    \/ EndFrame
    \/ HandleNetMsg
    \/ \E e \in BoardEvents : Notify(e)
    \/ BoardSendToOutbound

SpecBoard == InitBoard /\ [][NextBoard]_vars

\* ------------------------------------------------------------ the game, a peer off the protocol
\* moves off the board the peer has sent so far: recorded or still queued
OffBoardSent ==
    row_pos(board.moves, COLUMNS)
        + Cardinality({i \in DOMAIN inbound.q : inbound.q[i] = Input(COLUMNS)})

\* the payloads such a peer publishes: moves in the columns on offer, a move
\* in the first column off the board (Input carries any usize) and a payload
\* that is no NetworkMessage
RemoteEvents ==
    {Event(PEER, Input(c)) : c \in 0..MaxCol}
        \cup {Event(PEER, Garbage)}
        \cup (IF OffBoardSent < MaxOffBoard THEN {Event(PEER, Input(COLUMNS))} ELSE {})

\* the frame loop with no pointer press, fed by that peer
NextRemote ==
    \/ PlaceIdle
    \/ \E d \in DELTAS : MoveCoin(d)
    \/ EndFrame
    \/ HandleNetMsg
    \/ \E e \in RemoteEvents : Notify(e)

SpecRemote == InitBoard /\ [][NextRemote]_vars

\* ------------------------------------------------------------ matchmaking
\* OnEnter(AppState::InGame), setup run up to spawn_local: the resources as
\* the plugins insert them, the stored username read, the channels made.
\* The session has no role yet: local_player is 0.
SetupState(peers) ==
    /\ board = Board_new
    /\ coins = <<>>
    /\ cmds = [spawn |-> <<>>, despawn |-> FALSE]
    /\ pc = "place"
    /\ net_ran = FALSE
    /\ inbound = ChannelNew
    /\ outbound = ChannelNew
    /\ sending = <<>>
    /\ send_net_msg = SendNetMsg_new(0)
    /\ game_state \in {setup_username(GameState_new, u) : u \in StoredUsernames}
    /\ npc = "fetch"
    /\ event = <<>>
    /\ notified = 0
    /\ backlog = <<>>
    /\ events = <<>>
    /\ setup_sent = <<>>
    /\ handled = 0
    /\ err_logged = FALSE
    /\ peer \in peers
    /\ relay = <<>>

InitSetup == SetupState({PeerNew(0, NO_NAME)})

\* what the relay may hold under the game tag.  An event signed by the local
\* identity is one this program published (a NetworkMessage: NewGame,
\* JoinGame, Input or Replay); another identity may have published any text,
\* here one holding both variant names.
MatchEvents ==
    { Event(PEER, NewGame(NO_NAME)),
      Event(ME, NewGame(NO_NAME)),
      Event(PEER, JoinGame(NO_NAME, NO_NAME, ME, PEER)),
      Event(ME, JoinGame(NO_NAME, NO_NAME, PEER, ME)),
      Event(OTHER_ID, NewGame(NO_NAME)),
      Event(OTHER_ID, JoinGame(NO_NAME, NO_NAME, PEER, OTHER_ID)),
      Event(PEER, Input(0)),
      Event(ME, Input(0)),
      Event(ME, Replay),
      Event(PEER, Garbage),
      Event(PEER, Text({"NewGame", "JoinGame"})) }

LiveEvents ==
    {e \in MatchEvents : e.pubkey # ME /\ e.content.type \in {"NewGame", "JoinGame"}}

SeqsUpTo(S, n) == UNION {[1..k -> S] : k \in 0..n}

NextMatch ==
    \/ \E b \in SeqsUpTo(MatchEvents, MaxBacklog) : Fetch(b)
    \/ Tip
    \/ ForwardEvent
    \/ SubscribedP1
    \/ SubscribedP2
    \/ StartLive
    \/ SetLocalPlayer
    \/ \E e \in LiveEvents : Notify(e)
    \/ SubscribedLive
    \/ PublishLoop
    \/ SendMsgOk
    \/ SendMsgErr
    \/ PlaceIdle
    \/ \E d \in DELTAS : MoveCoin(d)
    \/ EndFrame
    \/ HandleNetMsg

SpecMatch == InitSetup /\ [][NextMatch]_vars

\* ------------------------------------------------------------ matchmaking, two clients
\* The second client runs the same setup and handle_net_msg.  Its record is
\* kept in its own naming (it is ME to itself and the first client is PEER),
\* so the operators above apply to it unchanged; events are renamed when
\* they pass between its record and the relay.
SwapId(id) == IF id = ME THEN PEER ELSE IF id = PEER THEN ME ELSE id

SwapContent(m) ==
    IF m.type = "JoinGame"
    THEN [m EXCEPT !.p1_pubkey = SwapId(@), !.p2_pubkey = SwapId(@)]
    ELSE m

SwapEvent(e) == Event(SwapId(e.pubkey), SwapContent(e.content))

\* the second client's steps leave the first client's state alone
FirstClientIdle ==
    UNCHANGED <<board, coins, cmds, pc, net_ran, inbound, outbound, sending,
                send_net_msg, game_state, npc, event, notified, backlog, events,
                setup_sent, handled, err_logged>>

\* get_events_of and events.reverse() of the second client
PeerFetch ==
    /\ peer.npc = "fetch"
    /\ LET evs == [i \in 1..Len(relay) |-> SwapEvent(relay[i])]
       IN peer' = [peer EXCEPT !.npc = "tip", !.backlog = evs, !.events = evs]
    /\ UNCHANGED relay
    /\ FirstClientIdle

\* the matchmaking step of the second client
PeerTip ==
    /\ peer.npc = "tip"
    /\ LET msgs == tip_message(peer.events, peer.game_state.local_ln_address)
       IN IF msgs = <<>>
          THEN peer' = [peer EXCEPT !.npc = "forward"]
          ELSE LET s == TrySend(peer.outbound, "clone", msgs[1])
               IN peer' = [peer EXCEPT !.npc = "forward", !.outbound = s.ch,
                                       !.sent = IF s.ok THEN Append(@, msgs[1]) ELSE @]
    /\ UNCHANGED relay
    /\ FirstClientIdle

\* one iteration of the drain loop of the second client, up to its first
\* await, or to its end when it has none
PeerForward ==
    /\ peer.npc = "forward"
    /\ peer.events # <<>>
    /\ LET e == Head(peer.events)
       IN peer' = [peer EXCEPT
                     !.events = Tail(@),
                     !.npc = forward_next(e),
                     !.event = IF forward_next(e) # "forward" THEN <<e>> ELSE @,
                     !.inbound = IF forward_skipped(e) \/ forward_next(e) # "forward"
                                 THEN @ ELSE TrySend(@, "clone", e.content).ch]
    /\ UNCHANGED relay
    /\ FirstClientIdle

\* the subscribe of line 223 returns in the second client
PeerSubscribedP1 ==
    /\ peer.npc = "subscribe_p1"
    /\ IF Contains(peer.event[1].content, "JoinGame")
       THEN peer' = [peer EXCEPT !.npc = "subscribe_p2"]
       ELSE peer' = [peer EXCEPT
                       !.npc = "forward",
                       !.event = <<>>,
                       !.inbound = TrySend(@, "clone", peer.event[1].content).ch]
    /\ UNCHANGED relay
    /\ FirstClientIdle

\* the subscribe of line 235 returns in the second client
PeerSubscribedP2 ==
    /\ peer.npc = "subscribe_p2"
    /\ peer' = [peer EXCEPT
                  !.npc = "forward",
                  !.event = <<>>,
                  !.inbound = TrySend(@, "clone", peer.event[1].content).ch]
    /\ UNCHANGED relay
    /\ FirstClientIdle

\* handle_notifications starts in the second client
PeerStartLive ==
    /\ peer.npc = "forward"
    /\ peer.events = <<>>
    /\ peer' = [peer EXCEPT !.npc = "live"]
    /\ UNCHANGED relay
    /\ FirstClientIdle

\* handle_notifications' closure of the second client for the relay event
\* e, up to its subscribe await or to its end
PeerNotify(e) ==
    /\ peer.npc = "live"
    /\ SwapEvent(e).pubkey # ME
    /\ Len(peer.inbound.q) < MaxInbound
    /\ peer' = IF Contains(SwapEvent(e).content, "JoinGame")
               THEN [peer EXCEPT !.npc = "subscribe_live", !.event = <<SwapEvent(e)>>]
               ELSE [peer EXCEPT !.inbound = TrySend(@, "clone", SwapEvent(e).content).ch]
    /\ UNCHANGED relay
    /\ FirstClientIdle

\* the subscribe await of the second client's closure returns
PeerSubscribedLive ==
    /\ peer.npc = "subscribe_live"
    /\ peer' = [peer EXCEPT
                  !.npc = "live",
                  !.event = <<>>,
                  !.inbound = TrySend(@, "clone", peer.event[1].content).ch]
    /\ UNCHANGED relay
    /\ FirstClientIdle

\* the publish loop of the second client: pop, then await send_msg
PeerPublish ==
    /\ peer.sending = <<>>
    /\ peer.outbound.q # <<>>
    /\ peer' = [peer EXCEPT !.outbound = TryNext(@),
                            !.sending = <<Head(peer.outbound.q)>>]
    /\ UNCHANGED relay
    /\ FirstClientIdle

\* send_msg of the second client returns Ok
PeerSendMsgOk ==
    /\ peer.sending # <<>>
    /\ relay' = Append(relay, SwapEvent(Event(ME, peer.sending[1])))
    /\ peer' = [peer EXCEPT !.sending = <<>>]
    /\ FirstClientIdle

\* send_msg of the second client returns Err
PeerSendMsgErr ==
    /\ peer.sending # <<>>
    /\ peer' = [peer EXCEPT !.sending = <<>>]
    /\ UNCHANGED relay
    /\ FirstClientIdle

\* the closure of the second client for the next event of the relay
PeerNotifyNext ==
    /\ peer.npc = "live"
    /\ peer.notified < Len(relay)
    /\ Len(peer.inbound.q) < MaxInbound
    /\ LET e == SwapEvent(relay[peer.notified + 1])
       IN peer' = IF e.pubkey = ME
                  THEN [peer EXCEPT !.notified = @ + 1]
                  ELSE IF Contains(e.content, "JoinGame")
                  THEN [peer EXCEPT !.notified = @ + 1,
                                    !.npc = "subscribe_live",
                                    !.event = <<e>>]
                  ELSE [peer EXCEPT !.notified = @ + 1,
                                    !.inbound = TrySend(@, "clone", e.content).ch]
    /\ UNCHANGED relay
    /\ FirstClientIdle

\* the role of the second client is taken over into its local_player
PeerSetLocalPlayer ==
    /\ peer.send_net_msg.local_player # peer.game_state.player_type
    /\ peer' = [peer EXCEPT !.send_net_msg.local_player = peer.game_state.player_type]
    /\ UNCHANGED relay
    /\ FirstClientIdle

\* what place of the second client sent is handed to its outbound queue
PeerSendToOutbound ==
    /\ peer.send_net_msg.send.q # <<>>
    /\ peer' = [peer EXCEPT
                  !.send_net_msg.send = TryNext(@),
                  !.outbound = TrySend(@, "clone", Head(peer.send_net_msg.send.q)).ch]
    /\ UNCHANGED relay
    /\ FirstClientIdle

\* handle_net_msg of the second client, one run
PeerHandleNetMsg ==
    /\ ~peer.net_ran
    /\ LET r == Drain([inbound |-> peer.inbound, board |-> peer.board,
                       gs |-> peer.game_state, spawn |-> peer.cmds.spawn,
                       handled |-> peer.handled])
       IN peer' = [peer EXCEPT !.net_ran = TRUE, !.inbound = r.inbound,
                               !.board = r.board, !.game_state = r.gs,
                               !.cmds.spawn = r.spawn, !.handled = r.handled]
    /\ UNCHANGED relay
    /\ FirstClientIdle

\* place of the second client, nothing pressed
PeerPlaceIdle ==
    /\ peer.pc = "place"
    /\ peer' = [peer EXCEPT !.pc = "move_coin"]
    /\ UNCHANGED relay
    /\ FirstClientIdle

\* place of the second client, a press on a slot of column c
PeerPlaceClick(c) ==
    /\ peer.pc = "place"
    /\ IF place_allowed(peer.board, peer.send_net_msg.local_player, c)
       THEN LET pm == PlayerMove(peer.board.player_turn, c, row_pos(peer.board.moves, c))
            IN peer' = [peer EXCEPT
                          !.pc = "move_coin",
                          !.board.moves = Append(@, pm),
                          !.send_net_msg.send = TrySend(@, "own", Input(c)).ch,
                          !.cmds.spawn = Append(@, CoinMove_new(pm))]
       ELSE peer' = [peer EXCEPT !.pc = "move_coin"]
    /\ UNCHANGED relay
    /\ FirstClientIdle

\* move_coin of the second client
PeerMoveCoin(delta) ==
    /\ peer.pc = "move_coin"
    /\ LET r == MoveCoins(peer.coins, 1, peer.board, delta)
       IN peer' = [peer EXCEPT !.pc = "done",
                               !.coins = SelectSeq(r.coins, Unsettled),
                               !.board = r.board]
    /\ UNCHANGED relay
    /\ FirstClientIdle

\* end of the second client's frame
PeerEndFrame ==
    /\ peer.pc = "done"
    /\ peer.net_ran
    /\ peer' = [peer EXCEPT
                  !.pc = "place",
                  !.net_ran = FALSE,
                  !.coins = (IF peer.cmds.despawn THEN <<>> ELSE @) \o peer.cmds.spawn,
                  !.cmds = [spawn |-> <<>>, despawn |-> FALSE]]
    /\ UNCHANGED relay
    /\ FirstClientIdle

\* two clients and the relay between them; no pointer press, no third client.
\* The relay holds AnnounceNewGame entries only when a backlog is fetched, so
\* the drain loops never reach the subscribe of line 235.
NextPair ==
    \/ Fetch(Reverse(relay))
    \/ Tip
    \/ ForwardEvent
    \/ SubscribedP1
    \/ StartLive
    \/ SetLocalPlayer
    \/ \E i \in DOMAIN relay : Notify(relay[i])
    \/ SubscribedLive
    \/ PublishLoop
    \/ SendMsgOk
    \/ SendMsgErr
    \/ PlaceIdle
    \/ \E d \in DELTAS : MoveCoin(d)
    \/ EndFrame
    \/ HandleNetMsg
    \/ PeerFetch
    \/ PeerTip
    \/ PeerForward
    \/ PeerSubscribedP1
    \/ PeerStartLive
    \/ PeerSetLocalPlayer
    \/ \E i \in DOMAIN relay : PeerNotify(relay[i])
    \/ PeerSubscribedLive
    \/ PeerPublish
    \/ PeerSendMsgOk
    \/ PeerSendMsgErr
    \/ PeerPlaceIdle
    \/ \E d \in DELTAS : PeerMoveCoin(d)
    \/ PeerEndFrame
    \/ PeerHandleNetMsg

\* both clients at the start of setup, each with or without a stored username
InitPair == SetupState({PeerNew(0, u) : u \in StoredUsernames})

SpecPair == InitPair /\ [][NextPair]_vars

\* ------------------------------------------------------------ the game, two clients
\* The two clients after matchmaking: the first announced and is Player1,
\* the second found the announcement in its backlog, joined and is Player2;
\* every message of the matchmaking is delivered and processed, and each
\* client's local player is its role.
InitGame ==
    /\ board = Board_new
    /\ coins = <<>>
    /\ cmds = [spawn |-> <<>>, despawn |-> FALSE]
    /\ pc = "place"
    /\ net_ran = FALSE
    /\ inbound = ChannelNew
    /\ outbound = ChannelNew
    /\ sending = <<>>
    /\ send_net_msg = SendNetMsg_new(1)
    /\ game_state = [GameState_new EXCEPT !.player_type = 1, !.start = TRUE]
    /\ npc = "live"
    /\ event = <<>>
    /\ notified = 2
    /\ backlog = <<>>
    /\ events = <<>>
    /\ setup_sent = <<NewGame(NO_NAME)>>
    /\ handled = 1
    /\ err_logged = FALSE
    /\ peer = [PeerNew(2, NO_NAME) EXCEPT
                    !.game_state.player_type = 2,
                    !.game_state.start = TRUE,
                    !.npc = "live",
                    !.notified = 2,
                    !.backlog = <<Event(PEER, NewGame(NO_NAME))>>,
                    !.sent = <<JoinGame(NO_NAME, NO_NAME, PEER, ME)>>,
                    !.handled = 1]
    /\ relay = <<Event(ME, NewGame(NO_NAME)),
                 Event(PEER, JoinGame(NO_NAME, NO_NAME, ME, PEER))>>

\* the pointer is used: the game is short of MaxGameMoves moves on both sides
PressOffered ==
    Len(board.moves) < MaxGameMoves /\ Len(peer.board.moves) < MaxGameMoves

\* a press of the first client on column c
GamePress(c) == PressOffered /\ PlaceClick(c)

\* the same of the second client
PeerGamePress(c) == PressOffered /\ PeerPlaceClick(c)

\* both frame loops, both publish paths and the relay's live delivery, each
\* event once and in order; no press is on the replay button (no reset).
\* Only moves are published after matchmaking, so the closures never reach
\* their subscribe await.
NextGame ==
    \/ PlaceIdle
    \/ \E c \in 0..MaxCol : GamePress(c)
    \/ \E d \in DELTAS : MoveCoin(d)
    \/ EndFrame
    \/ HandleNetMsg
    \/ SendToOutbound
    \/ PublishLoop
    \/ SendMsgOk
    \/ NotifyNext
    \/ PeerPlaceIdle
    \/ \E c \in 0..MaxCol : PeerGamePress(c)
    \/ \E d \in DELTAS : PeerMoveCoin(d)
    \/ PeerEndFrame
    \/ PeerHandleNetMsg
    \/ PeerSendToOutbound
    \/ PeerPublish
    \/ PeerSendMsgOk
    \/ PeerNotifyNext

SpecGame == InitGame /\ [][NextGame]_vars

\* ------------------------------------------------------------ win detector harness
\* a coin of player p dropped into column c; columns are filled left to right
WinDrop(p, c) ==
    /\ Len(board.moves) < MaxWinMoves
    /\ board.moves # <<>> => c >= board.moves[Len(board.moves)].column
    /\ row_pos(board.moves, c) <= Min(MAX_ROW_POS, MaxWinRow)
    /\ board' = check_win([board EXCEPT
                    !.moves = Append(@, PlayerMove(p, c, row_pos(board.moves, c))),
                    !.player_turn = p])
    /\ UNCHANGED <<coins, cmds, pc, net_ran, inbound, outbound, sending,
                   send_net_msg, game_state, npc, event, notified, backlog, events,
                   setup_sent, handled, err_logged, peer, relay>>

NextWin == \E p \in {1, 2}, c \in 0..MaxWinCol : WinDrop(p, c)

\* the detector is run on boards only: one initial state
InitWin == InitSetup /\ game_state = GameState_new

SpecWin == InitWin /\ [][NextWin]_vars

\* ------------------------------------------------------------ claims
\* every spawned coin has settled
AllSettled == coins = <<>> /\ cmds.spawn = <<>>

\* the coin settles in the next run of move_coin
Settling(coin) ==
    /\ SlotExists(coin.player_move.column, coin.player_move.row)
    /\ coin.y <= coin.player_move.row
    /\ ~coin.reached_target

\* this step is a run of move_coin
MoveCoinStep == pc = "move_coin" /\ pc' = "done"

\* C1: in every reachable state no column of the board holds more than 6 moves
C1_ColumnCap ==
    \A i \in DOMAIN board.moves : row_pos(board.moves, board.moves[i].column) <= 6

\* C1 witness: column 0 is full and a further Input(0) of the peer is queued
C1_FullColumn ==
    /\ row_pos(board.moves, 0) = 6
    /\ inbound.q # <<>>
    /\ Head(inbound.q) = Input(0)
    /\ pc = "place"
    /\ board.player_turn = send_net_msg.local_player

\* C2 (as claimed): with no winner and every accepted move settled,
\* player_turn is 1 after an even number of moves and 2 after an odd number
C2_TurnParity ==
    (board.winner = 0 /\ AllSettled) =>
        board.player_turn = (IF Len(board.moves) % 2 = 0 THEN 1 ELSE 2)

\* C3 (as claimed): when the one settling move finds the detector true,
\* winner becomes the player recorded in that move
C3_WinnerIsMover ==
    [][\A i \in DOMAIN coins :
          ( /\ MoveCoinStep
            /\ Settling(coins[i])
            /\ \A j \in DOMAIN coins : Settling(coins[j]) => j = i
            /\ has_winning_move(board.moves) )
          => board'.winner = coins[i].player_move.player]_vars

\* C4 (as claimed): once winner holds a player, every step that is not a
\* reset leaves it at that value
C4_WinnerKept ==
    [][(board.winner # 0 /\ board' # Board_new) => board'.winner = board.winner]_vars

\* C5 (as claimed): a step that sets winner, or starts with winner set and is
\* not a reset, leaves player_turn unchanged
C5_TurnFrozen ==
    [][board'.winner # 0 => board'.player_turn = board.player_turn]_vars

\* C6 (as claimed): the run of handle_net_msg that processes a queued
\* ResetSession leaves moves empty, winner unset and in_progress false
C6_ResetClears ==
    [][(inbound.q = <<Replay>> /\ inbound'.q = <<>>)
          => (board'.moves = <<>> /\ board'.winner = 0 /\ ~board'.in_progress)]_vars

\* setup is past its matchmaking step
TipDone == npc \in {"forward", "subscribe_p1", "subscribe_p2", "live", "subscribe_live"}

C8_JoinsAnnouncedGame ==
    \A X \in {PEER, OTHER_ID} :
        (TipDone /\ backlog = <<Event(X, NewGame(NO_NAME))>>) =>
            /\ setup_sent = <<JoinGame(NO_NAME, game_state.local_ln_address, X, ME)>>
            /\ handled = 1 => (game_state.player_type = 2 /\ game_state.start)

\* C8 witness: the forwarded AnnounceNewGame of the peer has been processed
C8_JoinedAsPlayer2 ==
    /\ backlog = <<Event(PEER, NewGame(NO_NAME))>>
    /\ npc = "live"
    /\ handled = 1
    /\ game_state.player_type = 2
    /\ setup_sent = <<JoinGame(NO_NAME, "bob", PEER, ME)>>
    /\ relay = <<Event(ME, JoinGame(NO_NAME, "bob", PEER, ME))>>

\* the queue holds more than the buffer: the buffer and the sender's own slot are taken
AtCapacity(ch) == Len(ch.q) > ChannelBuffer

\* this step of the drain loop ends in the try_send of line 240
ForwardTrySend ==
    \/ /\ npc = "forward"
       /\ events # <<>>
       /\ events' = Tail(events)
       /\ forward_next(Head(events)) = "forward"
       /\ ~forward_skipped(Head(events))
    \/ /\ npc \in {"subscribe_p1", "subscribe_p2"}
       /\ event # <<>>
       /\ event' = <<>>

\* C9 (as claimed): forwarding a backlog entry to an inbound queue at
\* capacity leaves the queue as it was and logs the failure
C9_FullQueueRefuses ==
    [][(ForwardTrySend /\ AtCapacity(inbound))
          => (inbound' = inbound /\ err_logged')]_vars

\* some window of 4 cells on an axis through the cell of move m holds m's player
LineThrough(moves, m) ==
    \E a \in AXES, k \in 0..3 :
        \A j \in 0..3 :
            LET c == m.column + (j - k) * a[1]
                r == m.row + (j - k) * a[2]
            IN c >= 0 /\ r >= 0 /\ Occupant(moves, c, r) = m.player

\* C10 (as claimed): the detector is true exactly when an axis through the
\* last-placed move holds 4 contiguous cells of that move's player
C10_LineAtLastMove ==
    has_winning_move(board.moves)
        <=> (board.moves # <<>> /\ LineThrough(board.moves, board.moves[Len(board.moves)]))

\* C10 (amended): the detector is true exactly when an axis through the cell
\* of some move of the list holds 4 contiguous cells of that move's player
C10_LineAtSomeMove ==
    has_winning_move(board.moves)
        <=> \E i \in DOMAIN board.moves : LineThrough(board.moves, board.moves[i])

\* C10 witness: the detector is true on a line that does not pass through
\* the last-placed move
C10_LineNotAtLastMove ==
    /\ board.moves # <<>>
    /\ has_winning_move(board.moves)
    /\ ~LineThrough(board.moves, board.moves[Len(board.moves)])


\* the conditions under which the specification rejects a local move in
\* column c; the local player is the one place compares player_turn with
local_move_refused(c) ==
    \/ board.player_turn # send_net_msg.local_player
    \/ board.in_progress
    \/ row_pos(board.moves, c) >= 6

\* C11: a press on column c while it is not the local player's turn, or a
\* coin is falling, or the column holds 6 moves, changes neither the board
\* nor a queue (the one place sends on, the one the publish loop reads) and
\* spawns no coin
C11_RefusedClickInert ==
    [][\A c \in 0..MaxCol :
          (PlaceClick(c) /\ local_move_refused(c))
              => ( /\ board' = board
                   /\ send_net_msg' = send_net_msg
                   /\ outbound' = outbound
                   /\ cmds' = cmds )]_vars

\* C11 witness: place has run on the local player's turn with room in
\* column 0 and no winner, while a coin was falling
C11_ClickWhileFalling ==
    /\ pc = "move_coin"
    /\ board.in_progress
    /\ board.winner = 0
    /\ board.player_turn = send_net_msg.local_player
    /\ row_pos(board.moves, 0) <= MAX_ROW_POS
    /\ coins # <<>>
    /\ cmds.spawn = <<>>

\* C12 (as claimed): a press that place accepts appends the one move
\* (player_turn, c, row_pos) and enqueues the one Input(c), be it on the
\* queue the publish loop reads or on the one place sends on
C12_AcceptedClickPublished ==
    [][\A c \in 0..MaxCol :
          (PlaceClick(c) /\ place_allowed(board, send_net_msg.local_player, c))
              => /\ board'.moves = Append(board.moves,
                        PlayerMove(board.player_turn, c, row_pos(board.moves, c)))
                 /\ \/ outbound'.q = Append(outbound.q, Input(c))
                    \/ send_net_msg'.send.q = Append(send_net_msg.send.q, Input(c))]_vars


\* this step is a run of handle_net_msg
HandleNetMsgStep == ~net_ran /\ net_ran'

\* C13 (as claimed): a MoveInput processed while player_turn is the local
\* player's role leaves moves, player_turn, winner and the outbound queue
\* as they were
C13_OutOfTurnRejected ==
    [][( /\ HandleNetMsgStep
         /\ inbound.q # <<>>
         /\ Head(inbound.q).type = "Input"
         /\ board.player_turn = game_state.player_type )
          => ( /\ board'.moves = board.moves
               /\ board'.player_turn = board.player_turn
               /\ board'.winner = board.winner
               /\ outbound' = outbound )]_vars

\* C14 (as claimed): every move on the board has player 1 or 2, a column in
\* 0..6 and a row in 0..5, whatever column the peer's MoveInput carried
C14_MovesOnBoard ==
    \A i \in DOMAIN board.moves :
        /\ board.moves[i].player \in {1, 2}
        /\ board.moves[i].column \in 0..6
        /\ board.moves[i].row \in 0..5

\* C15: a run of handle_net_msg that starts on an undecodable payload leaves
\* the outbound queue alone; when nothing decodable follows, board and
\* session are unchanged and the queue is drained; when a MoveInput with
\* room in its column follows, that move is appended and the queue is
\* consumed up to it
C15_UndecodableDropped ==
    [][( /\ HandleNetMsgStep
         /\ inbound.q # <<>>
         /\ Head(inbound.q) = Garbage )
          => LET rest == Tail(inbound.q)
             IN /\ outbound' = outbound
                /\ send_net_msg' = send_net_msg
                /\ game_state' = game_state
                /\ (\A i \in DOMAIN rest : rest[i] = Garbage)
                      => (board' = board /\ inbound'.q = <<>>)
                /\ ( /\ rest # <<>>
                     /\ rest[1].type = "Input"
                     /\ row_pos(board.moves, rest[1].column) <= 5 )
                      => ( /\ board'.moves = Append(board.moves,
                                PlayerMove(board.player_turn, rest[1].column,
                                           row_pos(board.moves, rest[1].column)))
                           /\ inbound'.q = Tail(rest) )]_vars

\* C15 witness: handle_net_msg is about to run on an undecodable payload
\* followed by a MoveInput for a column with room
C15_GarbageThenInput ==
    /\ ~net_ran
    /\ inbound.q = <<Garbage, Input(0)>>
    /\ row_pos(board.moves, 0) \in 1..5

\* C16 (as claimed): once started, no step changes the role
C16_RoleAssignedOnce ==
    [][game_state.start => game_state'.player_type = game_state.player_type]_vars

\* C18 (as claimed): a run of handle_net_msg that starts on a valid MoveInput
\* leaves the outbound queue alone and changes the board as place does for
\* a local move in that column: the move (player_turn, c, row_pos) appended
C18_RemoteLikeLocal ==
    [][( /\ HandleNetMsgStep
         /\ inbound.q # <<>>
         /\ Head(inbound.q).type = "Input"
         /\ Head(inbound.q).column \in 0..6
         /\ row_pos(board.moves, Head(inbound.q).column) <= 5 )
          => LET c == Head(inbound.q).column
             IN /\ outbound' = outbound
                /\ send_net_msg' = send_net_msg
                /\ board' = [board EXCEPT !.moves =
                        Append(@, PlayerMove(board.player_turn, c, row_pos(board.moves, c)))]]_vars

\* the positions of the queued MoveInputs handle_net_msg would accept
AcceptedAt(q, b) ==
    {j \in DOMAIN q : q[j].type = "Input" /\ row_pos(b.moves, q[j].column) <= 5}

\* C20: one run of handle_net_msg appends at most one move: it consumes the
\* queue up to and including the first MoveInput it accepts and leaves the
\* messages behind it queued in their order; with no such MoveInput it
\* drains the queue and appends nothing
C20_OneMovePerRun ==
    [][HandleNetMsgStep =>
          LET acc == AcceptedAt(inbound.q, board)
          IN IF acc = {}
             THEN board'.moves = board.moves /\ inbound'.q = <<>>
             ELSE LET j == CHOOSE k \in acc : \A l \in acc : k <= l
                  IN /\ Len(board'.moves) = Len(board.moves) + 1
                     /\ board'.moves[Len(board'.moves)].column = inbound.q[j].column
                     /\ inbound'.q = SubSeq(inbound.q, j + 1, Len(inbound.q))]_vars

\* C20 witness: handle_net_msg has accepted the first of two queued
\* MoveInputs in this frame and the second is still queued
C20_SecondInputQueued ==
    /\ net_ran
    /\ pc = "place"
    /\ inbound.q = <<Input(0)>>
    /\ cmds.spawn # <<>>
    /\ row_pos(board.moves, 0) <= MAX_ROW_POS


\* an AnnounceNewGame or AnnounceJoin authored by the local identity
OwnMatchmaking(e) == e.pubkey = ME /\ e.content.type \in {"NewGame", "JoinGame"}

\* the payloads of the entries of s that are not own matchmaking entries, in order
PayloadsToForward(s) ==
    LET kept == SelectSeq(s, LAMBDA e : ~OwnMatchmaking(e))
    IN [i \in 1..Len(kept) |-> kept[i].content]

\* C19: while setup forwards the backlog and handle_net_msg has popped
\* nothing, the inbound queue holds, oldest first and once each, the payloads
\* of the backlog entries the drain loop is through with (the one it holds
\* across a subscribe await is not yet among them), less the AnnounceNewGame
\* and AnnounceJoin entries of the local identity; own MoveInput entries and
\* every entry of another identity are among them
C19_BacklogForwarded ==
    (npc \in {"forward", "subscribe_p1", "subscribe_p2"} /\ handled = 0) =>
        inbound.q = PayloadsToForward(
                        SubSeq(backlog, 1, Len(backlog) - Len(events) - Len(event)))

\* C19 witness: a backlog of an own MoveInput followed by an own
\* AnnounceNewGame has been passed; only the MoveInput was forwarded
C19_OwnInputForwarded ==
    /\ npc = "forward"
    /\ events = <<>>
    /\ handled = 0
    /\ backlog = <<Event(ME, Input(0)), Event(ME, NewGame(NO_NAME))>>
    /\ inbound.q = <<Input(0)>>


\* both clients fetched an empty backlog and are past the matchmaking step
BothFetchedEmpty ==
    /\ TipDone
    /\ backlog = <<>>
    /\ peer.npc \in {"forward", "subscribe_p1", "subscribe_p2", "live", "subscribe_live"}
    /\ peer.backlog = <<>>

C21_NoJoinableTip ==
    ( /\ TipDone
      /\ backlog # <<>>
      /\ \/ backlog[Len(backlog)].pubkey = ME
         \/ backlog[Len(backlog)].content.type # "NewGame" )
        => /\ setup_sent = <<>>
           /\ outbound.q = <<>>
           /\ sending = <<>>
           /\ relay = <<>>
           /\ handled = 0 => (game_state.player_type = 0 /\ ~game_state.start)

\* C21 witness: the backlog ends in the local identity's own AnnounceNewGame
\* and setup has passed its matchmaking step and the forward loop
C21_OwnAnnounceAtTip ==
    /\ npc = "forward"
    /\ events = <<>>
    /\ backlog = <<Event(PEER, Garbage), Event(ME, NewGame(NO_NAME))>>
    /\ setup_sent = <<>>

\* this step is a run of place in which the replay block issued the despawn
\* of every coin
ReplayStep == pc = "place" /\ pc' = "move_coin" /\ cmds'.despawn

\* C22 (as claimed): a replay happens only with winner set and enqueues one
\* ResetSession, be it on the queue the publish loop reads or on the one
\* place sends on; a press on the button alone (no coin spawned) leaves the
\* board in its initial state
C22_ReplayPublished ==
    [][ReplayStep =>
          /\ board.winner # 0
          /\ cmds'.spawn = cmds.spawn => board' = Board_new
          /\ \/ outbound'.q = Append(outbound.q, Replay)
             \/ /\ Len(send_net_msg'.send.q) > Len(send_net_msg.send.q)
                /\ send_net_msg'.send.q[Len(send_net_msg.send.q) + 1] = Replay ]_vars


\* the positions of the moves of column c, as a set
InColumn(moves, c) == {i \in DOMAIN moves : moves[i].column = c}

\* every move's row is the number of earlier moves in its column
RowsInOrder(moves) ==
    \A i \in DOMAIN moves :
        moves[i].row = Cardinality({j \in InColumn(moves, moves[i].column) : j < i})

\* C23: after every step no two moves share a cell and the rows of a
\* column's moves are 0, 1, .. in order of insertion; a step other than a
\* replay leaves every move it found where and as it was
C23_RowsNeverReassigned ==
    [][ /\ RowsInOrder(board'.moves)
        /\ \A i, j \in DOMAIN board'.moves :
              ( /\ board'.moves[i].column = board'.moves[j].column
                /\ board'.moves[i].row = board'.moves[j].row ) => i = j
        /\ ~ReplayStep =>
              /\ Len(board'.moves) >= Len(board.moves)
              /\ \A i \in DOMAIN board.moves : board'.moves[i] = board.moves[i] ]_vars

\* C23 witness: a column holding local and remote moves stacked on each other
C23_StackedColumn ==
    /\ Len(board.moves) >= 3
    /\ \E i, j \in DOMAIN board.moves : board.moves[i].player # board.moves[j].player
    /\ coins = <<>>
    /\ pc = "place"

\* C24: whenever winner is set the detector is true on the move list
C24_WinnerHasLine ==
    board.winner # 0 => has_winning_move(board.moves)

\* C24 witness: a won board on which a move has settled after the winning one
C24_WonBoardGrown ==
    /\ board.winner # 0
    /\ Len(board.moves) >= 5
    /\ coins = <<>>
    /\ cmds.spawn = <<>>

\* C25 (as claimed): with winner set, a step other than a replay leaves the
\* move list as it is
C25_WonBoardClosed ==
    [][(board.winner # 0 /\ ~ReplayStep) => board'.moves = board.moves]_vars


\* the number of MoveInput events the relay holds
InputsPublished == Cardinality({i \in DOMAIN relay : relay[i].content.type = "Input"})

\* nothing is on its way in either direction (what place sent is handed on,
\* published and notified, what was notified is processed) and no coin is
\* falling on either side
AllDelivered ==
    /\ send_net_msg.send.q = <<>> /\ outbound.q = <<>> /\ sending = <<>>
    /\ peer.send_net_msg.send.q = <<>> /\ peer.outbound.q = <<>> /\ peer.sending = <<>>
    /\ notified = Len(relay) /\ peer.notified = Len(relay)
    /\ event = <<>> /\ peer.event = <<>>
    /\ inbound.q = <<>> /\ peer.inbound.q = <<>>
    /\ coins = <<>> /\ cmds.spawn = <<>> /\ ~board.in_progress
    /\ peer.coins = <<>> /\ peer.cmds.spawn = <<>> /\ ~peer.board.in_progress

\* place would accept a press of this client on one of the columns on offer
CanSubmit(b, local_player) == \E c \in 0..MaxCol : place_allowed(b, local_player, c)

\* player_turn is the role of the client and place accepts a press of it
AbleToMove(b, role, local_player) == b.player_turn = role /\ CanSubmit(b, local_player)

\* no queue overflow: no try_send of place was refused, so that, once
\* nothing is on its way, every move of either board is a MoveInput the
\* relay holds
NoOverflow ==
    /\ Len(board.moves) = InputsPublished
    /\ Len(peer.board.moves) = InputsPublished

\* C26 (as claimed): with no queue overflow, no winner, room in a column,
\* nothing undelivered and no drop in progress, exactly one of the two
\* clients has player_turn equal to its role and can submit a move
C26_OneClientCanMove ==
    ( /\ AllDelivered
      /\ NoOverflow
      /\ board.winner = 0 /\ peer.board.winner = 0
      /\ \E c \in 0..MaxCol :
            row_pos(board.moves, c) <= 5 /\ row_pos(peer.board.moves, c) <= 5 )
        => AbleToMove(board, game_state.player_type, send_net_msg.local_player)
             # AbleToMove(peer.board, peer.game_state.player_type,
                          peer.send_net_msg.local_player)

\* C27 (as claimed): with no queue overflow, when every published MoveInput
\* is delivered, processed and settled, the two clients hold the same moves,
\* player_turn and winner
C27_BoardsAgree ==
    (AllDelivered /\ NoOverflow) =>
        /\ board.moves = peer.board.moves
        /\ board.player_turn = peer.board.player_turn
        /\ board.winner = peer.board.winner

====
